---- MODULE Spec2Model ----
(***************************************************************************)
(* A model of the call parser of vvvvvv.rs (src/src/lib.rs).  Text is a    *)
(* sequence of one-character strings.  Every parser of the source is an    *)
(* operator from the input text to a parse result; the repetition of       *)
(* `arguments` (nom's many0) is run one iteration per step.                *)
(***************************************************************************)
EXTENDS Integers, Sequences, FiniteSets, TLC

\* Longest enumerated input text.
MaxLen == 3

-----------------------------------------------------------------------------
(* Character classes *)

\* tag(","), tag("("), tag(")")
Seps == {",", "(", ")"}

\* nom space0: space and tab
Blanks == {" ", "\t"}

\* str::trim: the White_Space characters (those of the modelled alphabet)
WhiteSpace == {" ", "\t", "\n"}

Letters == {"a", "b", "c", "d", "e", "f", "g", "h", "i", "j", "k", "l", "m",
            "n", "o", "p", "q", "r", "s", "t", "u", "v", "w", "x", "y", "z"}

Digits == {"0", "1", "2", "3", "4", "5", "6", "7", "8", "9"}

\* nom alphanumeric1: ASCII letters and digits
Alnum == Letters \cup Digits

\* every character of the model
Chars == Alnum \cup Seps \cup WhiteSpace \cup {"!"}

\* is_not(",()"): every character but the three delimiters
NotSeps == Chars \ Seps

-----------------------------------------------------------------------------
(* Input texts *)

\* the characters the enumerated inputs are built from: one or two of each class
Alphabet == {"a", "2", ",", "(", ")", " ", "\t", "\n", "!"}

T_sep1 == <<",", " ">>
T_sps1 == <<" ", ",", " ">>
T_sps2 == <<" ", ")">>
T_arg1 == <<" ", " ", "h", "i", " ", " ", ",">>
T_arg2 == <<" ", " ", "h", "i", " ", " ", "(">>
T_arg3 == <<" ", " ", "h", "i", " ", " ", ")">>
T_sa1 == <<")", " ", " ", "h", "i", " ", " ", ",">>
T_sa2 == <<"(", " ", " ", "h", "i", " ", " ", "(">>
T_sa3 == <<",", " ", " ", "h", "i", " ", " ", ")">>
T_args == <<")", " ", " ", "h", "i", " ", " ", ",", " ", " ", "h", "i", " ", " ",
            "(", " ", " ", "h", "i", " ", " ", ")">>
T_cn1 == <<"a", "s", "d", "f", "a", "s", "d", "f">>
T_cn2 == <<"a", "s", "d", "f", "a", "s", "d", "f", "2">>
T_cn3 == <<"a", "s", "d", "f", "a", "s", "d", "f", "2", "(">>
T_say == <<"s", "a", "y", "(", "2", ")">>
T_endtext == <<"e", "n", "d", "t", "e", "x", "t">>
T_crewman == <<"c", "r", "e", "a", "t", "e", "c", "r", "e", "w", "m", "a", "n", ",",
               "0", ",", "0", ",", " ", "r", "e", "d", ",", "0", ",",
               "f", "o", "l", "l", "o", "w", "p", "l", "a", "y", "e", "r">>
T_2abc == <<"2", "a", "b", "c">>
T_endtext_x == <<"e", "n", "d", "t", "e", "x", "t", " ", " ", "x">>

\* the texts of the test suite, and the two examples of the specification
TestInputs == {T_sep1, T_sps1, T_sps2, T_arg1, T_arg2, T_arg3, T_sa1, T_sa2, T_sa3,
               T_args, T_cn1, T_cn2, T_cn3, T_say, T_endtext, T_crewman,
               T_2abc, T_endtext_x}

\* every text of at most MaxLen characters, and the test texts
Inputs == (UNION {[1..k -> Alphabet] : k \in 0..MaxLen}) \cup TestInputs

\* the parsers of the source
Ops == {"sep", "sep_spaced", "argument", "argument_spaced", "argument_maybe",
        "sep_argument", "arguments", "call_name", "call"}

-----------------------------------------------------------------------------
(* Slices and parse results *)

\* &input[..n]
Take(s, n) == SubSeq(s, 1, n)

\* &input[n..]
Drop(s, n) == SubSeq(s, n + 1, Len(s))

RECURSIVE RunLen(_, _)
\* length of the longest prefix of s made of characters of S
RunLen(s, S) ==
    IF s = <<>> \/ Head(s) \notin S THEN 0 ELSE 1 + RunLen(Tail(s), S)

RECURSIVE TrailLen(_, _)
\* length of the longest suffix of s made of characters of S
TrailLen(s, S) ==
    IF s = <<>> \/ s[Len(s)] \notin S THEN 0
    ELSE 1 + TrailLen(Take(s, Len(s) - 1), S)

\* run a parser (or take a length), then go on with what it returned: the
\* value v is computed once and handed to F
Then(v, F(_)) == CHOOSE y \in {F(x) : x \in {v}} : TRUE

\* Ok((rest, out))
Ok(r, o) == [ok |-> TRUE, rest |-> r, out |-> o, kind |-> "none"]

\* Err(Err::Error((at, kind))): `at` is the position the error carries
Error(at, k) == [ok |-> FALSE, rest |-> at, out |-> <<>>, kind |-> k]

-----------------------------------------------------------------------------
(* The parsers *)

\* alt((tag(","), tag("("), tag(")")))
sep(i) ==
    IF i # <<>> /\ Head(i) \in Seps
    THEN Ok(Tail(i), <<Head(i)>>)
    ELSE Error(i, "Tag")

\* the matched prefix of length n and what follows it
Split(i, n) == Ok(Drop(i, n), Take(i, n))

\* the matched prefix of length n; the error k when it is empty
Split1(i, n, k) == IF n = 0 THEN Error(i, k) ELSE Split(i, n)

\* space0: zero or more spaces and tabs; never fails
space0(i) == Then(RunLen(i, Blanks), LAMBDA n : Split(i, n))

\* a faulty variant: the separator is optional
sep_spaced_optional(i) ==
    Then(space0(i), LAMBDA a :
    Then(sep(a.rest), LAMBDA b :
        IF ~b.ok THEN Ok(a.rest, <<>>)
        ELSE Then(space0(b.rest), LAMBDA c : Ok(c.rest, b.out))))

\* delimited(space0, sep, space0): the error of any of the three is
\* returned, the text of the middle one is kept
sep_spaced(i) ==
    Then(space0(i), LAMBDA a :
    Then(sep(a.rest), LAMBDA b :
        IF ~b.ok THEN b
        ELSE Then(space0(b.rest), LAMBDA c : Ok(c.rest, b.out))))

\* a faulty variant: an argument is a run of letters and digits
argument_alnum(i) ==
    Then(RunLen(i, Alnum), LAMBDA n : Split1(i, n, "IsNot"))

\* a faulty variant: an argument ends at the end of its line
argument_line(i) ==
    Then(RunLen(i, NotSeps \ {"\n"}), LAMBDA n : Split1(i, n, "IsNot"))

\* is_not(",()"): the longest non-empty run of non-delimiters
argument(i) ==
    Then(RunLen(i, NotSeps), LAMBDA n : Split1(i, n, "IsNot"))

\* a faulty variant: only spaces and tabs are trimmed
trim_blanks(s) ==
    Then(Drop(s, RunLen(s, Blanks)), LAMBDA t :
        Take(t, Len(t) - TrailLen(t, Blanks)))

\* str::trim: trim_start, then trim_end
trim(s) ==
    Then(Drop(s, RunLen(s, WhiteSpace)), LAMBDA t :
        Take(t, Len(t) - TrailLen(t, WhiteSpace)))

\* a faulty variant: the matched text is returned as it is
argument_spaced_untrimmed(i) == argument(i)

\* map(argument, str::trim)
argument_spaced(i) ==
    Then(argument(i), LAMBDA a : IF a.ok THEN Ok(a.rest, trim(a.out)) ELSE a)

\* a faulty variant: the failure of the inner parser is passed on
argument_maybe_strict(i) == argument_spaced(i)

\* map(opt(argument_spaced), Option::unwrap_or_default): an error of the
\* inner parser becomes Ok((i, None)), and None becomes ""
argument_maybe(i) ==
    Then(argument_spaced(i), LAMBDA a : IF a.ok THEN a ELSE Ok(i, <<>>))

\* preceded(sep_spaced, argument_maybe)
sep_argument(i) ==
    Then(sep_spaced(i), LAMBDA s : IF ~s.ok THEN s ELSE argument_maybe(s.rest))

\* a faulty variant: the name starts with a letter
call_name_letter_first(i) ==
    Then(RunLen(i, Alnum), LAMBDA n :
        IF n = 0 \/ Head(i) \notin Letters
        THEN Error(i, "AlphaNumeric")
        ELSE Split(i, n))

\* alphanumeric1
call_name(i) ==
    Then(RunLen(i, Alnum), LAMBDA n : Split1(i, n, "AlphaNumeric"))

\* what one iteration of the repetition leaves
Step(p, r, e, i, acc) ==
    [pc |-> p, result |-> r, err |-> e, rest |-> i, args |-> acc]

\* a faulty variant: at least one pair is required (many1)
arguments_step_many1(i, acc) ==
    Then(sep_argument(i), LAMBDA r :
        IF ~r.ok
        THEN IF acc = <<>> THEN Step("done", "Err", "Many1", i, acc)
                           ELSE Step("done", "Ok", "none", i, acc)
        ELSE IF r.rest = i THEN Step("done", "Err", "Many0", i, acc)
        ELSE Step("many0", "none", "none", r.rest, Append(acc, r.out)))

\* a faulty variant: an empty argument is not collected
arguments_step_skip_empty(i, acc) ==
    Then(sep_argument(i), LAMBDA r :
        IF ~r.ok THEN Step("done", "Ok", "none", i, acc)
        ELSE IF r.rest = i THEN Step("done", "Err", "Many0", i, acc)
        ELSE Step("many0", "none", "none", r.rest,
                  IF r.out = <<>> THEN acc ELSE Append(acc, r.out)))

\* a faulty variant: the repetition resumes where the failed attempt gave up
arguments_step_error_position(i, acc) ==
    Then(sep_argument(i), LAMBDA r :
        IF ~r.ok THEN Step("done", "Ok", "none", r.rest, acc)
        ELSE IF r.rest = i THEN Step("done", "Err", "Many0", i, acc)
        ELSE Step("many0", "none", "none", r.rest, Append(acc, r.out)))

\* one iteration of many0(sep_argument) on input i with acc collected so far:
\* an error of the pair ends the repetition with (i, acc); a pair that
\* consumed nothing is the error Many0; otherwise the result is collected
arguments_step(i, acc) ==
    Then(sep_argument(i), LAMBDA r :
        IF ~r.ok THEN Step("done", "Ok", "none", i, acc)
        ELSE IF r.rest = i THEN Step("done", "Err", "Many0", i, acc)
        ELSE Step("many0", "none", "none", r.rest, Append(acc, r.out)))

-----------------------------------------------------------------------------
(* State *)

VARIABLES
    op,      \* the parser that was called ("none" before the call)
    input,   \* the text it was called on
    pc,      \* "idle", "start", "many0" (inside the repetition), "done"
    rest,    \* the remaining input
    name,    \* RawCall.name
    args,    \* RawCall.args, or the Vec of arguments
    out,     \* the text a text parser returns
    result,  \* "none" while running, then "Ok" or "Err"
    err      \* the ErrorKind of a failure

vars == <<op, input, pc, rest, name, args, out, result, err>>

Init ==
    /\ op = "none"
    /\ input = <<>>
    /\ pc = "idle"
    /\ rest = <<>>
    /\ name = <<>>
    /\ args = <<>>
    /\ out = <<>>
    /\ result = "none"
    /\ err = "none"

\* a parser is called on an input text; many0 starts with its own input and
\* an empty Vec
Invoke ==
    /\ pc = "idle"
    /\ op' \in Ops
    /\ input' \in Inputs
    /\ pc' = IF op' = "arguments" THEN "many0" ELSE "start"
    /\ rest' = input'
    /\ UNCHANGED <<name, args, out, result, err>>

\* a text parser returns v
Return(v) ==
    /\ \E r \in {v} :
          /\ pc' = "done"
          /\ result' = IF r.ok THEN "Ok" ELSE "Err"
          /\ err' = r.kind
          /\ rest' = r.rest
          /\ out' = r.out
    /\ UNCHANGED <<op, input, name, args>>

Sep == op = "sep" /\ pc = "start" /\ Return(sep(input))

SepSpaced == op = "sep_spaced" /\ pc = "start" /\ Return(sep_spaced(input))

Argument == op = "argument" /\ pc = "start" /\ Return(argument(input))

ArgumentSpaced ==
    op = "argument_spaced" /\ pc = "start" /\ Return(argument_spaced(input))

ArgumentMaybe ==
    op = "argument_maybe" /\ pc = "start" /\ Return(argument_maybe(input))

SepArgument ==
    op = "sep_argument" /\ pc = "start" /\ Return(sep_argument(input))

CallName == op = "call_name" /\ pc = "start" /\ Return(call_name(input))

\* call: the first parser of tuple((call_name, arguments))
Call ==
    /\ op = "call"
    /\ pc = "start"
    /\ \E r \in {call_name(input)} :
           /\ pc' = IF r.ok THEN "many0" ELSE "done"
           /\ result' = IF r.ok THEN "none" ELSE "Err"
           /\ err' = r.kind
           /\ rest' = r.rest
           /\ name' = IF r.ok THEN r.out ELSE <<>>
    /\ UNCHANGED <<op, input, args, out>>

\* arguments (alone, or as the second parser of call): one iteration of many0
Arguments ==
    /\ op \in {"arguments", "call"}
    /\ pc = "many0"
    /\ \E s \in {arguments_step(rest, args)} :
           /\ pc' = s.pc
           /\ result' = s.result
           /\ err' = s.err
           /\ rest' = s.rest
           /\ args' = s.args
    /\ UNCHANGED <<op, input, name, out>>

Next ==
    \/ Invoke
    \/ Sep
    \/ SepSpaced
    \/ Argument
    \/ ArgumentSpaced
    \/ ArgumentMaybe
    \/ SepArgument
    \/ CallName
    \/ Call
    \/ Arguments

Spec == Init /\ [][Next]_vars

\* the parsers are plain function calls: a call that can take a step takes it
FairSpec == Spec /\ WF_vars(Next)

-----------------------------------------------------------------------------
(* Notions the properties are stated with *)

\* the part of the input that was consumed
Consumed == Take(input, Len(input) - Len(rest))

\* s is a suffix of t
IsSuffix(s, t) == Len(s) <= Len(t) /\ s = Drop(t, Len(t) - Len(s))

\* the number of delimiter characters of s
CountSeps(s) == Cardinality({p \in 1..Len(s) : s[p] \in Seps})

\* the places of the delimiter characters of s, in order
SepPositions(s) ==
    LET P == {p \in 1..Len(s) : s[p] \in Seps}
    IN  [k \in 1..Cardinality(P) |->
            CHOOSE p \in P : Cardinality({q \in P : q < p}) = k - 1]

\* the text of s from after place p up to the next delimiter or the end
SegmentAfter(s, p) ==
    LET t == Drop(s, p)
        E == {e \in 1..Len(t) : t[e] \in Seps}
    IN  IF E = {} THEN t
        ELSE Take(t, (CHOOSE e \in E : \A f \in E : e <= f) - 1)

\* t has no whitespace character at either end
Trimmed(t) == t = <<>> \/ (t[1] \notin WhiteSpace /\ t[Len(t)] \notin WhiteSpace)

\* t is s without the whitespace at its two ends
IsTrimOf(t, s) ==
    /\ Trimmed(t)
    /\ \E a, b \in 0..Len(s) :
          /\ a + b <= Len(s)
          /\ t = SubSeq(s, a + 1, Len(s) - b)
          /\ \A k \in 1..a : s[k] \in WhiteSpace
          /\ \A k \in (Len(s) - b + 1)..Len(s) : s[k] \in WhiteSpace

\* n is the longest non-empty run of letters and digits s starts with
IsLeadingName(n, s) ==
    /\ n # <<>>
    /\ Len(n) <= Len(s)
    /\ n = Take(s, Len(n))
    /\ \A k \in 1..Len(n) : n[k] \in Alnum
    /\ Len(n) < Len(s) => s[Len(n) + 1] \notin Alnum

\* s starts with a letter or a digit
StartsAlnum(s) == s # <<>> /\ s[1] \in Alnum

\* s has no delimiter and no whitespace at either end
CleanText(s) == (\A k \in 1..Len(s) : s[k] \notin Seps) /\ Trimmed(s)

\* the parser o has returned
Returned(o) == op = o /\ pc = "done"

\* the argument list (alone or inside call) has returned successfully
ListDone == op \in {"arguments", "call"} /\ pc = "done" /\ result = "Ok"

-----------------------------------------------------------------------------
(* Properties *)

\* C1: call succeeds exactly when call_name succeeds, that is exactly when
\* the input starts with an ASCII letter or digit; the name returned is the
\* longest leading run of letters and digits; the argument list never turns
\* a matched name into a failure.
C1_CallSucceedsIffName ==
    /\ Returned("call") =>
          /\ (result = "Ok") <=> StartsAlnum(input)
          /\ (result = "Ok") <=> call_name(input).ok
          /\ result = "Ok" => IsLeadingName(name, input)
    /\ Returned("call_name") =>
          /\ (result = "Ok") <=> StartsAlnum(input)
          /\ result = "Ok" => IsLeadingName(out, input)

C1_Witness ==
    Returned("call") /\ result = "Ok" /\ input = T_endtext /\ name = T_endtext

\* C2: when the argument list has been parsed, the number of arguments is
\* the number of delimiter characters consumed.
C2_OneArgumentPerSeparator ==
    ListDone => Len(args) = CountSeps(Consumed)

C2_Witness ==
    Returned("call") /\ input = T_say /\ Len(args) = 2 /\ CountSeps(Consumed) = 2

\* C3: the arguments are, in input order, the trimmed texts that follow each
\* consumed delimiter up to the next delimiter or the end of the input (so a
\* delimiter followed by nothing but blanks gives the empty text), as in
\* call("say(2)") and arguments(")  hi  ,  hi  (  hi  )").
C3_ArgumentsAreTrimmedSegments ==
    ListDone =>
        LET P == SepPositions(Consumed)
        IN  /\ Len(args) = Len(P)
            /\ \A k \in 1..Len(P) :
                  IsTrimOf(args[k], SegmentAfter(input, P[k]))
            /\ (op = "call" /\ input = T_say) => args = << <<"2">>, <<>> >>
            /\ (op = "arguments" /\ input = T_args) =>
                  args = << <<"h", "i">>, <<"h", "i">>, <<"h", "i">>, <<>> >>

C3_Witness ==
    /\ Returned("arguments") /\ input = T_args
    /\ args = << <<"h", "i">>, <<"h", "i">>, <<"h", "i">>, <<>> >>

\* C4 (as claimed): call_name fails on "" and on "2abc".
C4_Original ==
    (Returned("call_name") /\ input \in {<<>>, T_2abc}) => result = "Err"

\* C4 (amended): call_name fails on "", and on "2abc" it succeeds with the
\* name "2abc" and nothing remaining.
C4_CallNameEmptyAndDigit ==
    Returned("call_name") =>
        /\ input = <<>> => result = "Err"
        /\ input = T_2abc => (result = "Ok" /\ out = T_2abc /\ rest = <<>>)

C4_Witness ==
    Returned("call_name") /\ input = T_2abc /\ result = "Ok"

\* C5 (as claimed): for every text s without delimiters and without blanks at
\* its ends, the empty text included, argument(s + ",") = (",", s).
C5_Original ==
    (/\ Returned("argument")
     /\ input # <<>>
     /\ input[Len(input)] = ","
     /\ CleanText(Take(input, Len(input) - 1)))
    => (/\ result = "Ok"
        /\ rest = <<",">>
        /\ out = Take(input, Len(input) - 1))

\* C5 (amended): the same for every non-empty such text s; argument(",")
\* fails.
C5_ArgumentBeforeComma ==
    /\ (/\ Returned("argument")
        /\ Len(input) > 1
        /\ input[Len(input)] = ","
        /\ CleanText(Take(input, Len(input) - 1)))
       => (/\ result = "Ok"
           /\ rest = <<",">>
           /\ out = Take(input, Len(input) - 1))
    /\ (Returned("argument") /\ input = <<",">>) => result = "Err"

C5_Witness ==
    /\ Returned("argument") /\ input = <<"a", "!", ",">>
    /\ result = "Ok" /\ rest = <<",">> /\ out = <<"a", "!">>

\* C6: argument_maybe never fails; it returns what the trimmed-argument
\* parser returns when that succeeds, and otherwise (the input is empty or
\* starts with a delimiter) the empty text with the whole input remaining.
C6_ArgumentMaybeNeverFails ==
    Returned("argument_maybe") =>
        LET a == argument_spaced(input)
        IN  /\ result = "Ok"
            /\ a.ok <=> ~(input = <<>> \/ input[1] \in Seps)
            /\ a.ok => (rest = a.rest /\ out = a.out)
            /\ ~a.ok => (rest = input /\ out = <<>>)
            /\ input = <<>> => (rest = <<>> /\ out = <<>>)

C6_Witness ==
    /\ Returned("argument_maybe") /\ input = <<",", "a">>
    /\ result = "Ok" /\ rest = input /\ out = <<>>

\* C7: in a successful result of call the name is a non-empty text of ASCII
\* letters and digits, and every argument has no delimiter in it and no
\* whitespace character (space, tab, newline) at either end.
C7_NameAndArgumentsWellFormed ==
    (Returned("call") /\ result = "Ok") =>
        /\ name # <<>>
        /\ \A k \in 1..Len(name) : name[k] \in Alnum
        /\ \A k \in 1..Len(args) : CleanText(args[k])

C7_Witness ==
    /\ Returned("call") /\ result = "Ok"
    /\ input = <<"a", ",", "\n">> /\ args = << <<>> >>

\* C8: every parser returns; inside the argument list every iteration that
\* goes on to another one has shortened the remaining input, and the
\* repetition never ends in the no-progress error.
C8_Terminates ==
    /\ [][(pc = "many0" /\ pc' = "many0") => Len(rest') < Len(rest)]_vars
    /\ <>(pc = "done" /\ err # "Many0")

C8_Witness ==
    /\ Returned("arguments") /\ input = T_args
    /\ result = "Ok" /\ Len(args) = 4

\* C9: the remaining input is always a suffix of the input; when the
\* argument list stops it stops at a place where no separator follows, and
\* when it stops before any pair it has consumed nothing (after the name),
\* blanks included: call("endtext  x") leaves "  x".
C9_FailedPairConsumesNothing ==
    /\ IsSuffix(rest, input)
    /\ ListDone =>
          /\ ~sep_spaced(rest).ok
          /\ args = <<>> => Consumed = name
          /\ (op = "call" /\ input = T_endtext_x) => rest = <<" ", " ", "x">>

C9_Witness ==
    /\ Returned("call") /\ input = T_endtext_x
    /\ result = "Ok" /\ rest = <<" ", " ", "x">>

\* C10: in a successful result of call either there are no arguments or
\* nothing of the input remains.
C10_ArgumentsRunToEnd ==
    (Returned("call") /\ result = "Ok") => (args = <<>> \/ rest = <<>>)

C10_Witness ==
    /\ Returned("call") /\ result = "Ok" /\ input = T_crewman
    /\ Len(args) = 5 /\ rest = <<>>

====
